---- MODULE Spec2Model ----
(***************************************************************************)
(* A model of parallely: a terminal supervisor that runs several commands  *)
(* as child processes.  The parts of the source are modelled each with its *)
(* own specification over the shared variables:                            *)
(*                                                                         *)
(*   SpecApp   the supervisor of app.rs (App::run, its shutdown channel    *)
(*             and OS-signal listener, App::handle_events), the children   *)
(*             of console.rs and the exit path of main.rs;                 *)
(*   SpecBus   the message bus of message.rs with the ShutdownHandler of   *)
(*             shutdown_handler.rs (signal listener and key handler) and   *)
(*             the ParallelyEvent wrapper of event.rs;                     *)
(*   SpecSend  a producer publishing through the MessageSender of          *)
(*             message.rs, before and after the stream was dropped;        *)
(*   SpecExec  one TaskExecutor of task_executor.rs with the ChildExt      *)
(*             signal delivery of task_executor/child_ext.rs;              *)
(*   SpecForward  the forwarding task of TaskExecutor::execute: the lines  *)
(*             of the child's stdout and stderr and the output channel;    *)
(*   LiveSpecStop  that forwarding task under a child that never stops     *)
(*             writing, with the fairness of its select!;                  *)
(*   SpecConsole  the output of a child of console.rs (ConsoleState::spawn *)
(*             and forward_output);                                        *)
(*   SpecPane  the panes of console.rs: the mouse events App::handle_events*)
(*             stores in them and the scroll offsets Console::render sets. *)
(***************************************************************************)
EXTENDS Integers, Sequences, FiniteSets, TLC

\* ------------------------------------------------------------- bounds
\* Number of configured commands (Parallely::commands has at least one).
NumCommands == 2
\* Bound on the input events the supervisor of app.rs handles in one run.
MaxEvents == 1

\* Bound on the OS signals delivered while the listener waits.
MaxSignals == 1

\* Bound on the input events given to ShutdownHandler::handle_event in one run.
MaxBusEvents == 2
\* Bound on the OS signals delivered to the ShutdownHandler's listener.
MaxBusSignals == 2

\* Bound on the messages a producer publishes on the bus of message.rs.
MaxProduced == 2

\* Bound on the operations called on the TaskExecutor in one run.
MaxOps == 4
\* Bound on the lines a child writes to its streams.
MaxLines == 2

\* Bounds of the panes: columns of one pane, rows of its output viewport,
\* lines of output one pane receives, events handled.
PaneWidth == 1
ViewHeight == 1
MaxPaneLines == 2
MaxPaneEvents == 2

Commands == 1..NumCommands

\* ------------------------------------------------------------- values
NoValue == "None"

\* Exit codes a child can end with by itself.
ExitCodes == {0, 1}

\* OS termination signals the listeners wait for.
OsSignals == {"SIGINT", "SIGTERM", "SIGQUIT"}

\* crossterm key events: code, modifiers, kind.
KeyCodes == {"q", "c", "backslash", "apostrophe", "x"}
KeyMods == {"NONE", "CONTROL", "CONTROL_SHIFT"}
KeyKinds == {"Press", "Release", "Repeat"}
KeyEvents == [type : {"Key"}, code : KeyCodes, mods : KeyMods, kind : KeyKinds]
\* The crossterm events that are no key events.
OtherEvents ==
    [type : {"Mouse", "Resize", "FocusGained", "FocusLost", "Paste"},
     code : {NoValue}, mods : {NoValue}, kind : {NoValue}]
Events == KeyEvents \cup OtherEvents

VARIABLES
    \* ---- app.rs / console.rs / main.rs
    exit_on_complete,   \* App::exit_on_complete
    should_be_quit,     \* App::should_be_quit
    app_pc,             \* position of App::run: "init", "loop", "broke", "returned"
    app_result,         \* what App::run returns
    tasks_terminated,   \* the fused join_all future has yielded its result
    task_pc,            \* per command: position of the future ConsoleState::spawn returns
    child,              \* per command: the child process of console.rs
    shutdown_q,         \* the unbounded shutdown channel of init_shutdown
    shutdown_open,      \* its receiver is alive (it is a local of App::run)
    events_handled,     \* number of events App::handle_events has been given
    lst_pc,             \* position of the listener task of init_shutdown
    sig_pending,        \* OS signals delivered to the process and not yet taken by
                        \* the listener, in order of delivery
    main_pc,            \* position of main
    reported,           \* the status entries main printed
    published,          \* number of items made available to the select! of App::run
                        \* so far, by every producer; an item's serial is its rank
    ev_ready,           \* serial of the item ready in event_stream, 0 if none
    shutdown_ser,       \* serials of the messages in shutdown_q
    consumed,           \* serials of the items App::run has taken, in order
    \* ---- message.rs / shutdown_handler.rs / event.rs
    unix,               \* the build target is a unix (cfg(unix))
    bus_log,            \* every message sent on the bus, in order, with its producer
    bus_read,           \* how many of them the MessageStream has yielded
    bus_open,           \* the MessageStream (receiver) is alive
    h_event,            \* the ParallelyEvent last given to handle_event
    h_count,            \* number of events given to handle_event
    hl_pc,              \* position of the task listen_for_signal spawns
    bus_signals,        \* OS signals delivered to the process, in order
    prod_pc,            \* a holder of a MessageSender clone: "running", "panicked"
    prod_calls,         \* number of publishing calls that holder has made
    \* ---- task_executor.rs / task_executor/child_ext.rs
    ex_child,           \* TaskExecutor::child is Some
    ex_pid,             \* TaskExecutor::pid
    ex_sender,          \* TaskExecutor::shutdown_sender is Some
    proc,               \* the child process as the operating system has it
    fw_pc,              \* position of the forwarding task execute spawns
    stop_req,           \* the forwarder's oneshot receiver is ready (sent to, or sender dropped)
    ex_call,            \* the operation the caller is suspended in, "idle" if none
    ex_ret,             \* what the last returned operation returned
    os_result,          \* outcome of the libc::kill call of the last operation, if it made one
    n_ops,              \* number of operations called
    n_signals,          \* number of libc::kill calls the last operation made
    n_kills,            \* number of Child::kill calls the last operation made
    n_stops,            \* number of sends on the forwarder's oneshot channel the last
                        \* operation made
    observed,           \* the TaskStatus an operation returned last
    sig_result,         \* what send_signal returned in the last operation, if it was called
    pipe,               \* per stream of the child: the lines written and not yet read
    n_written,          \* number of lines the child has written
    out_chan,           \* the lines pushed onto the output channel, in order
    out_open,           \* the TaskOutputReceiver execute returned is alive
    \* ---- the panes: console.rs and the mouse branch of App::handle_events
    pane_mouse,         \* per pane: ConsoleState::mouse_event
    pane_scroll,        \* per pane: ConsoleState::output_vertical_scroll
    pane_lines,         \* per pane: number of lines of ConsoleState::output_text
    pane_pc,            \* position of the loop of App::run: "draw", "select"
    n_pane_events,      \* number of events handled
    \* ---- history of one executor, kept for the properties
    ex_hist,            \* since the last spawn: libc::kill calls made by signal,
                        \* stop requests sent to the forwarding task
    fw_hist             \* lines the forwarding task pushed, and those it pushed
                        \* after the stop request

appVars == <<exit_on_complete, should_be_quit, app_pc, app_result, tasks_terminated,
             task_pc, child, shutdown_q, shutdown_open, events_handled, lst_pc,
             sig_pending, main_pc, reported, published, ev_ready, shutdown_ser,
             consumed>>

\* The bookkeeping of the order in which items reach App::run.
orderVars == <<published, ev_ready, shutdown_ser, consumed>>

busVars == <<unix, bus_log, bus_read, bus_open, h_event, h_count, hl_pc, bus_signals,
             prod_pc, prod_calls>>

execVars == <<ex_child, ex_pid, ex_sender, proc, fw_pc, stop_req, ex_call, ex_ret,
              os_result, n_ops, n_signals, n_kills, n_stops, sig_result, pipe,
              n_written, out_chan, out_open, observed,
             ex_hist, fw_hist>>

\* The child's output on its way to the caller of execute.
outVars == <<pipe, n_written, out_chan, out_open>>

paneVars == <<pane_mouse, pane_scroll, pane_lines, pane_pc, n_pane_events>>

vars == <<appVars, busVars, execVars, paneVars>>

\* ------------------------------------------------------------- app.rs

\* ShutdownReason of app.rs without a payload.
OkReason(r) == [ok |-> TRUE, reason |-> r, tasks |-> <<>>]
\* ShutdownReason::End(tasks_end).
EndReason(ts) == [ok |-> TRUE, reason |-> "End", tasks |-> ts]
\* Err(report) travelling on the shutdown channel or returned by App::run.
ErrResult(e) == [ok |-> FALSE, reason |-> e, tasks |-> <<>>]

NoResult == [ok |-> TRUE, reason |-> NoValue, tasks |-> <<>>]

\* unbounded_channel send: fails once the receiver has been dropped.
ChanSend(q, open, m) == IF open THEN Append(q, m) ELSE q

NoChild == [state |-> "none", code |-> 0]

InitApp ==
    /\ exit_on_complete \in BOOLEAN
    /\ should_be_quit = FALSE
    /\ app_pc = "init"
    /\ app_result = NoResult
    /\ tasks_terminated = FALSE
    /\ task_pc = [i \in Commands |-> "none"]
    /\ child = [i \in Commands |-> NoChild]
    /\ shutdown_q = <<>>
    /\ shutdown_open = FALSE
    /\ events_handled = 0
    /\ lst_pc = "none"
    /\ sig_pending = <<>>
    /\ main_pc = "running"
    /\ reported = <<>>
    /\ published = 0
    /\ ev_ready = 0
    /\ shutdown_ser = <<>>
    /\ consumed = <<>>

\* ParallelyEvent::new: the event with its propagate flag set.
NewParallelyEvent(e) == [inner |-> e, propagate |-> TRUE]

NoEvent == [inner |-> NoValue, propagate |-> TRUE]

InitBus ==
    /\ unix \in BOOLEAN
    /\ bus_log = <<>>
    /\ bus_read = 0
    /\ bus_open = TRUE
    /\ h_event = NoEvent
    /\ h_count = 0
    /\ hl_pc = "none"
    /\ bus_signals = <<>>
    /\ prod_pc = "running"
    /\ prod_calls = 0

\* The parts a specification leaves alone stay as constructed.
IdleApp ==
    /\ exit_on_complete = FALSE
    /\ should_be_quit = FALSE
    /\ app_pc = "init"
    /\ app_result = NoResult
    /\ tasks_terminated = FALSE
    /\ task_pc = [i \in Commands |-> "none"]
    /\ child = [i \in Commands |-> NoChild]
    /\ shutdown_q = <<>>
    /\ shutdown_open = FALSE
    /\ events_handled = 0
    /\ lst_pc = "none"
    /\ sig_pending = <<>>
    /\ main_pc = "running"
    /\ reported = <<>>
    /\ published = 0
    /\ ev_ready = 0
    /\ shutdown_ser = <<>>
    /\ consumed = <<>>

\* ConsoleState::new for every command: no mouse event, offset 0, no output.
NoMouse == [kind |-> NoValue, column |-> 0, row |-> 0]
InitPanes ==
    /\ pane_mouse = [i \in Commands |-> NoMouse]
    /\ pane_scroll = [i \in Commands |-> 0]
    /\ pane_lines = [i \in Commands |-> 0]
    /\ pane_pc = "draw"
    /\ n_pane_events = 0

\* TaskStatus of task_executor.rs (the command is that of the one executor).
\* An absent pid is written 0 and an absent exit status NoExit.
NoExit == [how |-> "none", val |-> 0]
Ready == [kind |-> "Ready", pid |-> 0, status |-> NoExit]
Executing(pid) == [kind |-> "Executing", pid |-> pid, status |-> NoExit]
Exited(pid, status) == [kind |-> "Exited", pid |-> pid, status |-> status]

\* No TaskStatus returned yet.
NoStatus == [kind |-> NoValue, pid |-> 0, status |-> NoExit]

NoProc == [state |-> "none", status |-> NoExit, delivered |-> NoValue]
NoReturn == [op |-> NoValue, ok |-> TRUE, status |-> NoStatus]

\* The two piped streams of a child, nothing written.
Streams == {"stdout", "stderr"}
NoPipes == [st \in Streams |-> <<>>]

\* Nothing sent, nothing forwarded.
NoExHist == [signals |-> 0, stops |-> 0]
NoFwHist == [pushed |-> 0, late |-> 0]

\* TaskExecutor::new.
InitExec ==
    /\ ex_child = FALSE
    /\ ex_pid = 0
    /\ ex_sender = FALSE
    /\ proc = NoProc
    /\ fw_pc = "none"
    /\ stop_req = FALSE
    /\ ex_call = "idle"
    /\ ex_ret = NoReturn
    /\ os_result = NoValue
    /\ n_ops = 0
    /\ n_signals = 0
    /\ n_kills = 0
    /\ n_stops = 0
    /\ sig_result = NoValue
    /\ pipe = NoPipes
    /\ n_written = 0
    /\ out_chan = <<>>
    /\ out_open = FALSE
    /\ observed = NoStatus
    /\ ex_hist = NoExHist
    /\ fw_hist = NoFwHist

IdleBus ==
    /\ unix = TRUE
    /\ bus_log = <<>>
    /\ bus_read = 0
    /\ bus_open = TRUE
    /\ h_event = NoEvent
    /\ h_count = 0
    /\ hl_pc = "none"
    /\ bus_signals = <<>>
    /\ prod_pc = "running"
    /\ prod_calls = 0

\* The signals of a sequence of pending signals.
Range(q) == {q[k] : k \in 1..Len(q)}

\* listen_for_sigint: the reason each select! branch sends.
SignalReason(s) ==
    CASE s = "SIGINT" -> "Sigint"
      [] s = "SIGTERM" -> "Sigterm"
      [] s = "SIGQUIT" -> "Sigquit"

\* Reasons that reach App::run through the shutdown channel.
TriggerReasons == {"Sigint", "Sigterm", "Sigquit", "CtrlC", "Quit"}

\* App::run up to its loop: init_shutdown, then every ConsoleState::spawn in
\* order; collect::<Result<Vec<_>>>()? stops at the first spawn error and
\* returns it.  failAt = NumCommands + 1 means every spawn succeeded.
AppStart ==
    /\ app_pc = "init"
    /\ \E failAt \in 1..(NumCommands + 1) :
        /\ child' = [i \in Commands |->
                        IF i < failAt THEN [state |-> "running", code |-> 0]
                        ELSE NoChild]
        /\ task_pc' = [i \in Commands |-> IF i < failAt THEN "pending" ELSE "none"]
        /\ lst_pc' = "init"
        /\ IF failAt <= NumCommands
           THEN /\ app_pc' = "returned"
                /\ app_result' = ErrResult("spawn")
                /\ shutdown_open' = FALSE
           ELSE /\ app_pc' = "loop"
                /\ app_result' = app_result
                /\ shutdown_open' = TRUE
    /\ UNCHANGED <<exit_on_complete, should_be_quit, tasks_terminated, shutdown_q,
                   events_handled, sig_pending, main_pc, reported>>
    /\ UNCHANGED orderVars
    /\ UNCHANGED busVars
    /\ UNCHANGED execVars
    /\ UNCHANGED paneVars

\* The operating system, while the supervising process lives: a running child
\* ends by itself with an exit code.
ChildExit(i) ==
    /\ main_pc = "running"
    /\ child[i].state = "running"
    /\ \E c \in ExitCodes : child' = [child EXCEPT ![i] = [state |-> "exited", code |-> c]]
    /\ UNCHANGED <<exit_on_complete, should_be_quit, app_pc, app_result,
                   tasks_terminated, task_pc, shutdown_q, shutdown_open,
                   events_handled, lst_pc, sig_pending, main_pc, reported>>
    /\ UNCHANGED orderVars
    /\ UNCHANGED busVars
    /\ UNCHANGED execVars
    /\ UNCHANGED paneVars

\* The future ConsoleState::spawn returns, polled by join_all inside the
\* select! of App::run: stdout_task.await?, stderr_task.await?, then
\* child.wait().await?.  Both readers end at end-of-file, which the child's
\* exit brings, and child.wait() then reaps the child: once the child has
\* exited the future runs to its end.
TaskPoll(i) ==
    /\ app_pc = "loop"
    /\ ~tasks_terminated
    /\ task_pc[i] = "pending"
    /\ child[i].state = "exited"
    /\ task_pc' = [task_pc EXCEPT ![i] = "done"]
    /\ child' = [child EXCEPT ![i].state = "reaped"]
    /\ UNCHANGED <<exit_on_complete, should_be_quit, app_pc, app_result,
                   tasks_terminated, shutdown_q, shutdown_open, events_handled,
                   lst_pc, sig_pending, main_pc, reported>>
    /\ UNCHANGED orderVars
    /\ UNCHANGED busVars
    /\ UNCHANGED execVars
    /\ UNCHANGED paneVars

\* The entry join_all yields for command i: Ok(ParallelyResult).
TaskResult(i) == [kind |-> "Exited", command |-> i, code |-> child[i].code]

\* select! branch `tasks_end = &mut tasks_future` of App::run.
AppTasksEnd ==
    /\ app_pc = "loop"
    /\ ~tasks_terminated
    /\ \A i \in Commands : task_pc[i] = "done"
    /\ tasks_terminated' = TRUE
    /\ IF ~exit_on_complete
       THEN /\ app_pc' = "broke"
            /\ app_result' = EndReason([i \in Commands |-> TaskResult(i)])
       ELSE UNCHANGED <<app_pc, app_result>>
    /\ UNCHANGED <<exit_on_complete, should_be_quit, task_pc, child, shutdown_q,
                   shutdown_open, events_handled, lst_pc, sig_pending, main_pc,
                   reported>>
    /\ UNCHANGED orderVars
    /\ UNCHANGED busVars
    /\ UNCHANGED execVars
    /\ UNCHANGED paneVars

\* Mutant of AppRecvShutdown: the shutdown branch stores the result without
\* leaving the loop for good, so a later message is received as well.
AppRecvShutdown_StillReceiving ==
    /\ app_pc \in {"loop", "broke"}
    /\ shutdown_q # <<>>
    /\ app_result' = Head(shutdown_q)
    /\ shutdown_q' = Tail(shutdown_q)
    /\ app_pc' = "broke"
    /\ consumed' = Append(consumed, Head(shutdown_ser))
    /\ shutdown_ser' = Tail(shutdown_ser)
    /\ UNCHANGED <<published, ev_ready>>
    /\ UNCHANGED <<exit_on_complete, should_be_quit, tasks_terminated, task_pc,
                   child, shutdown_open, events_handled, lst_pc, sig_pending,
                   main_pc, reported>>
    /\ UNCHANGED busVars
    /\ UNCHANGED execVars
    /\ UNCHANGED paneVars

\* select! branch `Some(result) = shutdown_receiver.recv()` of App::run.
AppRecvShutdown ==
    /\ app_pc = "loop"
    /\ shutdown_q # <<>>
    /\ app_result' = Head(shutdown_q)
    /\ shutdown_q' = Tail(shutdown_q)
    /\ app_pc' = "broke"
    /\ consumed' = Append(consumed, Head(shutdown_ser))
    /\ shutdown_ser' = Tail(shutdown_ser)
    /\ UNCHANGED <<published, ev_ready>>
    /\ UNCHANGED <<exit_on_complete, should_be_quit, tasks_terminated, task_pc,
                   child, shutdown_open, events_handled, lst_pc, sig_pending,
                   main_pc, reported>>
    /\ UNCHANGED busVars
    /\ UNCHANGED execVars
    /\ UNCHANGED paneVars

\* The terminal: an input event (or a read error) becomes the item that is
\* ready in event_stream.  What the item is shows when App::run takes it.
EventReady ==
    /\ main_pc = "running"
    /\ app_pc = "loop"
    /\ ev_ready = 0
    /\ events_handled < MaxEvents
    /\ published' = published + 1
    /\ ev_ready' = published + 1
    /\ UNCHANGED <<exit_on_complete, should_be_quit, app_pc, app_result,
                   tasks_terminated, task_pc, child, shutdown_q, shutdown_open,
                   events_handled, lst_pc, sig_pending, main_pc, reported,
                   shutdown_ser, consumed>>
    /\ UNCHANGED busVars
    /\ UNCHANGED execVars
    /\ UNCHANGED paneVars

\* App::handle_events, key branch: the messages one key event sends.
AppKeyMessages(e) ==
    IF e.kind = "Press"
    THEN IF e.code = "q" THEN <<OkReason("Quit")>>
         ELSE IF e.code = "c" /\ e.mods = "CONTROL" THEN <<OkReason("CtrlC")>>
         ELSE IF e.code = "apostrophe" /\ e.mods = "CONTROL" THEN <<OkReason("Sigquit")>>
         ELSE <<>>
    ELSE <<>>

\* select! branch `Some(maybe_event) = event_stream.next()` with Ok(event).
AppEvent(e) ==
    /\ app_pc = "loop"
    /\ ev_ready # 0
    /\ events_handled' = events_handled + 1
    /\ shutdown_q' = shutdown_q \o AppKeyMessages(e)
    /\ published' = published + Len(AppKeyMessages(e))
    /\ shutdown_ser' = shutdown_ser \o [k \in 1..Len(AppKeyMessages(e)) |-> published + k]
    /\ consumed' = Append(consumed, ev_ready)
    /\ ev_ready' = 0
    /\ UNCHANGED <<exit_on_complete, should_be_quit, app_pc, app_result,
                   tasks_terminated, task_pc, child, shutdown_open, lst_pc,
                   sig_pending, main_pc, reported>>
    /\ UNCHANGED busVars
    /\ UNCHANGED execVars
    /\ UNCHANGED paneVars

\* The same branch with Err(e): break Ok(ShutdownReason::Error(e)).
AppEventError ==
    /\ app_pc = "loop"
    /\ ev_ready # 0
    /\ consumed' = Append(consumed, ev_ready)
    /\ ev_ready' = 0
    /\ UNCHANGED <<published, shutdown_ser>>
    /\ app_pc' = "broke"
    /\ app_result' = OkReason("Error")
    /\ UNCHANGED <<exit_on_complete, should_be_quit, tasks_terminated, task_pc,
                   child, shutdown_q, shutdown_open, events_handled, lst_pc,
                   sig_pending, main_pc, reported>>
    /\ UNCHANGED busVars
    /\ UNCHANGED execVars
    /\ UNCHANGED paneVars

\* Mutant of AppExit: the supervisor waits for every child it spawned to end
\* before it returns.
AppExit_WaitsForChildren ==
    /\ app_pc = "broke"
    /\ \A i \in Commands : child[i].state # "running"
    /\ should_be_quit' = TRUE
    /\ app_pc' = "returned"
    /\ shutdown_open' = FALSE
    /\ shutdown_q' = <<>>
    /\ shutdown_ser' = <<>>
    /\ ev_ready' = 0
    /\ UNCHANGED <<published, consumed>>
    /\ UNCHANGED <<exit_on_complete, app_result, tasks_terminated, task_pc, child,
                   events_handled, lst_pc, sig_pending, main_pc, reported>>
    /\ UNCHANGED busVars
    /\ UNCHANGED execVars
    /\ UNCHANGED paneVars

\* After the loop: self.exit(), return result.  shutdown_receiver is a local
\* of App::run: dropping it closes the channel and discards what is queued.
AppExit ==
    /\ app_pc = "broke"
    /\ should_be_quit' = TRUE
    /\ app_pc' = "returned"
    /\ shutdown_open' = FALSE
    /\ shutdown_q' = <<>>
    /\ shutdown_ser' = <<>>
    /\ ev_ready' = 0
    /\ UNCHANGED <<published, consumed>>
    /\ UNCHANGED <<exit_on_complete, app_result, tasks_terminated, task_pc, child,
                   events_handled, lst_pc, sig_pending, main_pc, reported>>
    /\ UNCHANGED busVars
    /\ UNCHANGED execVars
    /\ UNCHANGED paneVars

\* A message sent on the shutdown channel by a task other than App::run: it
\* takes the next serial when the send succeeds.
Published ==
    /\ published' = IF shutdown_open THEN published + 1 ELSE published
    /\ shutdown_ser' = IF shutdown_open THEN Append(shutdown_ser, published + 1)
                       ELSE shutdown_ser

\* listen_for_sigint up to its select!: registering the terminate and quit
\* streams can fail; init_shutdown then sends Err(e) and expects the send to
\* succeed.
ListenerInit ==
    /\ main_pc = "running"
    /\ lst_pc = "init"
    /\ \E registered \in BOOLEAN :
        IF registered
        THEN /\ lst_pc' = "listening"
             /\ shutdown_q' = shutdown_q
             /\ UNCHANGED <<published, shutdown_ser>>
        ELSE /\ lst_pc' = IF shutdown_open THEN "done" ELSE "panicked"
             /\ shutdown_q' = ChanSend(shutdown_q, shutdown_open, ErrResult("signal"))
             /\ Published
    /\ UNCHANGED <<exit_on_complete, should_be_quit, app_pc, app_result,
                   tasks_terminated, task_pc, child, shutdown_open, events_handled,
                   sig_pending, main_pc, reported>>
    /\ UNCHANGED <<ev_ready, consumed>>
    /\ UNCHANGED busVars
    /\ UNCHANGED execVars
    /\ UNCHANGED paneVars

\* The operating system delivers a termination signal to the process.
OsSignal(s) ==
    /\ main_pc = "running"
    /\ lst_pc = "listening"
    /\ s \notin Range(sig_pending)
    /\ Len(sig_pending) < MaxSignals
    /\ sig_pending' = Append(sig_pending, s)
    /\ UNCHANGED <<exit_on_complete, should_be_quit, app_pc, app_result,
                   tasks_terminated, task_pc, child, shutdown_q, shutdown_open,
                   events_handled, lst_pc, main_pc, reported>>
    /\ UNCHANGED orderVars
    /\ UNCHANGED busVars
    /\ UNCHANGED execVars
    /\ UNCHANGED paneVars

\* The select! of listen_for_sigint: one of the branches that are ready is
\* taken (tokio::select! picks among ready branches at random), its reason is
\* sent once and the task ends; a failed send ends in the expect of
\* init_shutdown.
ListenerFire ==
    /\ main_pc = "running"
    /\ lst_pc = "listening"
    /\ \E s \in Range(sig_pending) :
        shutdown_q' = ChanSend(shutdown_q, shutdown_open, OkReason(SignalReason(s)))
    /\ lst_pc' = IF shutdown_open THEN "done" ELSE "panicked"
    /\ sig_pending' = <<>>
    /\ Published
    /\ UNCHANGED <<exit_on_complete, should_be_quit, app_pc, app_result,
                   tasks_terminated, task_pc, child, shutdown_open, events_handled,
                   main_pc, reported>>
    /\ UNCHANGED <<ev_ready, consumed>>
    /\ UNCHANGED busVars
    /\ UNCHANGED execVars
    /\ UNCHANGED paneVars

\* main after app.run: `?` on an error, else one line per entry of the
\* result's task statuses.
MainFinish ==
    /\ app_pc = "returned"
    /\ main_pc = "running"
    /\ IF app_result.ok
       THEN /\ main_pc' = "exited"
            /\ reported' = app_result.tasks
       ELSE /\ main_pc' = "failed"
            /\ reported' = reported
    /\ UNCHANGED <<exit_on_complete, should_be_quit, app_pc, app_result,
                   tasks_terminated, task_pc, child, shutdown_q, shutdown_open,
                   events_handled, lst_pc, sig_pending>>
    /\ UNCHANGED orderVars
    /\ UNCHANGED busVars
    /\ UNCHANGED execVars
    /\ UNCHANGED paneVars

NextApp ==
    \/ AppStart
    \/ \E i \in Commands : ChildExit(i)
    \/ \E i \in Commands : TaskPoll(i)
    \/ AppTasksEnd
    \/ AppRecvShutdown
    \/ EventReady
    \/ \E e \in KeyEvents : AppEvent(e)
    \/ AppEventError
    \/ AppExit
    \/ ListenerInit
    \/ \E s \in OsSignals : OsSignal(s)
    \/ ListenerFire
    \/ MainFinish

\* The supervisor at start, the bus and handler left alone.
InitSpecApp == InitApp /\ IdleBus /\ InitExec /\ InitPanes

SpecApp == InitSpecApp /\ [][NextApp]_vars

\* ------------------------- message.rs, shutdown_handler.rs, event.rs

\* Message of message.rs.
ShutdownMsg(r) == [kind |-> "Shutdown", arg |-> r]
ErrorMsg(e) == [kind |-> "Error", arg |-> e]

\* MessageSender::send: the message joins the queue unless the receiver has
\* been dropped, in which case send returns the error.  The log keeps the
\* producer beside every message.
BusSend(log, open, m, from) == IF open THEN Append(log, [msg |-> m, from |-> from]) ELSE log

\* MessageSender::send: Ok exactly when the receiver is alive.
Send(open) == open

\* Mutant of SendError: send_error drops the message it could not send and
\* returns.
SendError_Returns(open) == IF Send(open) THEN "sent" ELSE "dropped"

\* MessageSender::send_error: panics when its send fails.
SendError(open) == IF Send(open) THEN "sent" ELSE "panic"

\* MessageSender::send_shutdown, send_event_chunk and need_update: a failed
\* send is handed to send_error.
SendShutdown(open) == IF Send(open) THEN "sent" ELSE SendError(open)
SendEventChunk(open) == IF Send(open) THEN "sent" ELSE SendError(open)
NeedUpdate(open) == IF Send(open) THEN "sent" ELSE SendError(open)

\* The position of a producer after a publish that ended as `outcome`: a
\* panic unwinds it, otherwise it goes on to `next`.
AfterSend(outcome, next) == IF outcome = "panic" THEN "panicked" ELSE next

\* The position of a producer after send_shutdown (after send_error, which
\* ends the same way).
AfterPublish(open, next) == AfterSend(SendShutdown(open), next)

\* The messages of the log that producer `from` sent.
SentBy(log, from) == SelectSeq(log, LAMBDA en : en.from = from)

\* ShutdownHandler::handle_event: the reason the handler sends for an event,
\* NoValue when the event is not one of its chords.
HandlerReason(e) ==
    IF e.type = "Key" /\ e.kind = "Press"
    THEN CASE e.code = "q" -> "Quit"
           [] e.code = "c" /\ e.mods = "CONTROL" -> "CtrlC"
           [] e.code = "backslash" /\ e.mods = "CONTROL" -> "Sigquit"
           [] OTHER -> NoValue
    ELSE NoValue

\* ParallelyEvent::stop_propagation.
StopPropagation(ev) == [ev EXCEPT !.propagate = FALSE]

\* Mutant of HandledEvent: the handler sends the message and forgets to stop
\* the propagation of the event.
HandledEvent_NoStop(ev) == ev

\* ShutdownHandler::handle_event: the event as the handler leaves it.
HandledEvent(ev) ==
    IF HandlerReason(ev.inner) # NoValue THEN StopPropagation(ev) ELSE ev

\* ShutdownHandler::handle_event called on a fresh ParallelyEvent by the
\* consumer of the bus, which dispatches the events of a batch it received:
\* the receiver is alive during the call.
HandleEvent(e) ==
    /\ bus_open
    /\ h_count < MaxBusEvents
    /\ h_count' = h_count + 1
    /\ h_event' = HandledEvent(NewParallelyEvent(e))
    /\ bus_log' = IF HandlerReason(e) # NoValue
                  THEN BusSend(bus_log, bus_open, ShutdownMsg(HandlerReason(e)), "handler")
                  ELSE bus_log
    /\ UNCHANGED <<unix, bus_read, bus_open, hl_pc, bus_signals,
                   prod_pc, prod_calls>>
    /\ UNCHANGED appVars
    /\ UNCHANGED execVars
    /\ UNCHANGED paneVars

\* ShutdownHandler::listen_for_signal: spawns the listener task.
ListenForSignal ==
    /\ hl_pc = "none"
    /\ hl_pc' = "init"
    /\ UNCHANGED <<unix, bus_log, bus_read, bus_open, h_event, h_count, bus_signals,
                   prod_pc, prod_calls>>
    /\ UNCHANGED appVars
    /\ UNCHANGED execVars
    /\ UNCHANGED paneVars

\* listen_for_signal_inner up to its wait: on unix the terminate and quit
\* streams are registered, which can fail; the error goes to send_error.
HListenerInit ==
    /\ hl_pc = "init"
    /\ \E registered \in BOOLEAN :
        IF registered \/ ~unix
        THEN /\ hl_pc' = "listening"
             /\ bus_log' = bus_log
        ELSE /\ hl_pc' = AfterPublish(bus_open, "failed")
             /\ bus_log' = BusSend(bus_log, bus_open, ErrorMsg("signal"), "listener")
    /\ UNCHANGED <<unix, bus_read, bus_open, h_event, h_count, bus_signals,
                   prod_pc, prod_calls>>
    /\ UNCHANGED appVars
    /\ UNCHANGED execVars
    /\ UNCHANGED paneVars

\* The signals the listener can observe on the build target.
ObservableSignals == IF unix THEN OsSignals ELSE {"SIGINT"}

\* The operating system delivers a termination signal to the process while
\* the handlers of the listener are installed (they stay installed after the
\* listener task has ended).
BusOsSignal(s) ==
    /\ hl_pc \in {"listening", "done"}
    /\ s \in ObservableSignals
    /\ s \notin Range(bus_signals)
    /\ Len(bus_signals) < MaxBusSignals
    /\ bus_signals' = Append(bus_signals, s)
    /\ UNCHANGED <<unix, bus_log, bus_read, bus_open, h_event, h_count, hl_pc,
                   prod_pc, prod_calls>>
    /\ UNCHANGED appVars
    /\ UNCHANGED execVars
    /\ UNCHANGED paneVars

\* Mutant of HListenerFire: the listener loops over its select! instead of
\* ending after the first signal.
HListenerFire_Loops ==
    /\ hl_pc = "listening"
    /\ unix
    /\ \E s \in Range(bus_signals) :
        bus_log' = BusSend(bus_log, bus_open, ShutdownMsg(SignalReason(s)), "listener")
    /\ hl_pc' = AfterPublish(bus_open, "listening")
    /\ UNCHANGED <<unix, bus_read, bus_open, h_event, h_count, bus_signals,
                   prod_pc, prod_calls>>
    /\ UNCHANGED appVars
    /\ UNCHANGED execVars
    /\ UNCHANGED paneVars

\* listen_for_signal_inner, the wait.  On unix: the select! over ctrl_c,
\* terminate and quit takes one of the branches that are ready (tokio::select!
\* picks among ready branches at random), send_shutdown publishes its reason
\* and the task ends.  Elsewhere: ctrl_c_future.await?, then Ok(()).
HListenerFire ==
    /\ hl_pc = "listening"
    /\ bus_signals # <<>>
    /\ IF unix
       THEN /\ \E s \in Range(bus_signals) :
                bus_log' = BusSend(bus_log, bus_open, ShutdownMsg(SignalReason(s)), "listener")
            /\ hl_pc' = AfterPublish(bus_open, "done")
       ELSE /\ bus_log' = bus_log
            /\ hl_pc' = "done"
    /\ UNCHANGED <<unix, bus_read, bus_open, h_event, h_count, bus_signals,
                   prod_pc, prod_calls>>
    /\ UNCHANGED appVars
    /\ UNCHANGED execVars
    /\ UNCHANGED paneVars

\* MessageStream::poll_next: the consumer takes the next message.
BusRecv ==
    /\ bus_open
    /\ bus_read < Len(bus_log)
    /\ bus_read' = bus_read + 1
    /\ UNCHANGED <<unix, bus_log, bus_open, h_event, h_count, hl_pc, bus_signals,
                   prod_pc, prod_calls>>
    /\ UNCHANGED appVars
    /\ UNCHANGED execVars
    /\ UNCHANGED paneVars

\* The consumer drops the MessageStream.
BusClose ==
    /\ bus_open
    /\ bus_open' = FALSE
    /\ UNCHANGED <<unix, bus_log, bus_read, h_event, h_count, hl_pc, bus_signals,
                   prod_pc, prod_calls>>
    /\ UNCHANGED appVars
    /\ UNCHANGED execVars
    /\ UNCHANGED paneVars

NextBus ==
    \/ \E e \in Events : HandleEvent(e)
    \/ ListenForSignal
    \/ HListenerInit
    \/ \E s \in OsSignals : BusOsSignal(s)
    \/ HListenerFire
    \/ BusRecv
    \/ BusClose

\* The messages a producer publishes: Shutdown, Error, InputEventBatch and
\* NeedRedraw (Message::Shutdown, Error, EventChunk, Update).
ProducedMsgs ==
    {ShutdownMsg(r) : r \in {"Quit", "Sigint"}}
        \cup {ErrorMsg("report"), [kind |-> "EventChunk", arg |-> NoValue],
              [kind |-> "Update", arg |-> NoValue]}

\* The MessageSender function that publishes message m, and how it ends.
Publish(m, open) ==
    CASE m.kind = "Shutdown" -> SendShutdown(open)
      [] m.kind = "Error" -> SendError(open)
      [] m.kind = "EventChunk" -> SendEventChunk(open)
      [] m.kind = "Update" -> NeedUpdate(open)

\* A holder of a MessageSender clone publishes a message with send_shutdown,
\* send_error, send_event_chunk or need_update.
BusProduce(m) ==
    /\ prod_pc = "running"
    /\ prod_calls < MaxProduced
    /\ prod_calls' = prod_calls + 1
    /\ bus_log' = BusSend(bus_log, bus_open, m, "producer")
    /\ prod_pc' = AfterSend(Publish(m, bus_open), prod_pc)
    /\ UNCHANGED <<unix, bus_read, bus_open, h_event, h_count, hl_pc, bus_signals>>
    /\ UNCHANGED appVars
    /\ UNCHANGED execVars
    /\ UNCHANGED paneVars

\* message.rs by itself: producers, the consumer, and the drop of the
\* consumer's MessageStream.
NextSend ==
    \/ \E m \in ProducedMsgs : BusProduce(m)
    \/ BusRecv
    \/ BusClose

InitSpecSend == IdleBus /\ IdleApp /\ InitExec /\ InitPanes

SpecSend == InitSpecSend /\ [][NextSend]_vars

\* The bus and handler at start, the supervisor left alone.
InitSpecBus == InitBus /\ IdleApp /\ InitExec /\ InitPanes

SpecBus == InitSpecBus /\ [][NextBus]_vars

\* --------------------- task_executor.rs, task_executor/child_ext.rs

\* ChildSignal and its libc signal (From<ChildSignal> for libc::c_int).
ChildSignals == {"Interrupt", "Quit", "Terminate"}
LibcSignal(sig) ==
    CASE sig = "Interrupt" -> "SIGINT"
      [] sig = "Quit" -> "SIGQUIT"
      [] sig = "Terminate" -> "SIGTERM"

\* What the operating system can answer to kill(2).
OsOutcomes == {"ok", "EPERM", "ESRCH"}

\* errno values of libc.
EPERM == 1
ESRCH == 3

\* kill(2) returns 0 on success and -1 on failure, the cause going to errno.
KillReturn(outcome) == IF outcome = "ok" THEN 0 ELSE -1

\* ChildExt::send_signal (unix), the match on the value libc::kill returned.
SendSignalResult(ret) ==
    CASE ret = EPERM -> "NoPermission"
      [] ret = ESRCH -> "NoWait"
      [] OTHER -> "Ok"

\* The fields of the executor and of its child process the operations work on.
ExecState ==
    [child |-> ex_child, sender |-> ex_sender, proc |-> proc, stop |-> stop_req,
     os |-> NoValue, res |-> NoValue, signals |-> 0, kills |-> 0, stops |-> 0]

\* Exit status of a process ended by a signal / by itself.
SignalNumber(sig) ==
    CASE sig = "SIGINT" -> 2
      [] sig = "SIGQUIT" -> 3
      [] sig = "SIGKILL" -> 9
      [] sig = "SIGTERM" -> 15
SignalStatus(sig) == [how |-> "signal", val |-> SignalNumber(sig)]
ExitStatus(c) == [how |-> "exit", val |-> c]

\* Mutant of TryWait: a child that has ended is still reported as Executing.
TryWait_NeverExited(st) ==
    IF ~st.child THEN [st |-> st, val |-> Ready]
    ELSE [st |-> st, val |-> Executing(ex_pid)]

\* TaskExecutor::try_wait.  Child::try_wait reaps a child that has ended and
\* keeps its status.
TryWait(st) ==
    IF ~st.child THEN [st |-> st, val |-> Ready]
    ELSE IF st.proc.state = "running" THEN [st |-> st, val |-> Executing(ex_pid)]
    ELSE [st |-> [st EXCEPT !.proc.state = "reaped"],
          val |-> Exited(ex_pid, st.proc.status)]

\* Mutant of Kill: kill ends the child and leaves the stop handle alone.
Kill_NoStop(st, doneOk) ==
    IF ~st.child THEN [st |-> st, ok |-> TRUE]
    ELSE LET st2 == [st EXCEPT !.kills = @ + 1]
         IN CASE st.proc.state = "running" ->
                   [st |-> [st2 EXCEPT !.proc.state = "reaped",
                                       !.proc.status = SignalStatus("SIGKILL")],
                    ok |-> TRUE]
              [] st.proc.state = "zombie" ->
                   [st |-> [st2 EXCEPT !.proc.state = "reaped"], ok |-> TRUE]
              [] OTHER -> [st |-> st2, ok |-> doneOk]

\* TaskExecutor::kill.  Child::kill sends SIGKILL and waits for the child; on
\* a child already reaped its result depends on the tokio version (doneOk).
Kill(st, doneOk) ==
    IF ~st.child THEN [st |-> st, ok |-> TRUE]
    ELSE LET st1 == IF st.sender
                    THEN [st EXCEPT !.sender = FALSE, !.stop = TRUE, !.stops = @ + 1]
                    ELSE st
             st2 == [st1 EXCEPT !.kills = @ + 1]
         IN CASE st.proc.state = "running" ->
                   [st |-> [st2 EXCEPT !.proc.state = "reaped",
                                       !.proc.status = SignalStatus("SIGKILL")],
                    ok |-> TRUE]
              [] st.proc.state = "zombie" ->
                   [st |-> [st2 EXCEPT !.proc.state = "reaped"], ok |-> TRUE]
              [] OTHER -> [st |-> st2, ok |-> doneOk]

\* Mutant of SendSignal: the pid is not checked, libc::kill is called on
\* whatever the child holds.
SendSignal_NoPidCheck(st, sig, outcome) ==
    [st |-> [st EXCEPT !.signals = @ + 1,
                       !.os = outcome,
                       !.res = SendSignalResult(KillReturn(outcome))],
     res |-> SendSignalResult(KillReturn(outcome))]

\* ChildExt::send_signal (unix).  Child::id is None once the child has been
\* reaped; otherwise libc::kill is called and the operating system answers.
SendSignal(st, sig, outcome) ==
    IF st.proc.state = "reaped"
    THEN [st |-> [st EXCEPT !.res = "InvalidPid"], res |-> "InvalidPid"]
    ELSE [st |-> [st EXCEPT !.signals = @ + 1,
                            !.os = outcome,
                            !.res = SendSignalResult(KillReturn(outcome)),
                            !.proc.delivered =
                                IF outcome = "ok" /\ st.proc.state = "running"
                                THEN LibcSignal(sig) ELSE @],
          res |-> SendSignalResult(KillReturn(outcome))]

\* Mutant of Signal: the stop handle is left in place (as_ref instead of
\* take), so that a later call finds it again.
Signal_KeepsHandle(st, sig, outcome, doneOk) ==
    IF st.child /\ st.sender
    THEN LET sent == SendSignal(st, sig, outcome)
             killed == IF sent.res # "Ok" THEN Kill(sent.st, doneOk)
                       ELSE [st |-> sent.st, ok |-> TRUE]
         IN [st |-> [killed.st EXCEPT !.stop = TRUE, !.stops = @ + 1],
             ok |-> killed.ok]
    ELSE [st |-> [st EXCEPT !.sender = FALSE, !.stop = (@ \/ st.sender)], ok |-> TRUE]

\* TaskExecutor::signal.
Signal(st, sig, outcome, doneOk) ==
    IF st.child /\ st.sender
    THEN LET st1 == [st EXCEPT !.sender = FALSE]
             sent == SendSignal(st1, sig, outcome)
             killed == IF sent.res # "Ok" THEN Kill(sent.st, doneOk)
                       ELSE [st |-> sent.st, ok |-> TRUE]
         IN [st |-> [killed.st EXCEPT !.stop = TRUE, !.stops = @ + 1],
             ok |-> killed.ok]
    ELSE [st |-> [st EXCEPT !.sender = FALSE, !.stop = (@ \/ st.sender)], ok |-> TRUE]

\* Mutant of SignalOrWait: the status try_wait returned is not looked at,
\* the signal is sent in every case.
SignalOrWait_AlwaysSignals(st, sig, outcome, doneOk) ==
    LET polled == TryWait(st)
        signalled == Signal(polled.st, sig, outcome, doneOk)
        killed == IF signalled.ok THEN signalled ELSE Kill(signalled.st, doneOk)
    IN IF killed.ok
       THEN [st |-> killed.st, pc |-> "wait", ok |-> TRUE, val |-> NoStatus]
       ELSE [st |-> killed.st, pc |-> "return", ok |-> FALSE, val |-> NoStatus]

\* Executable::signal_or_wait up to its wait: pc "wait" when it goes on to
\* self.wait().await, "return" when it returns val at once.
SignalOrWait(st, sig, outcome, doneOk) ==
    LET polled == TryWait(st)
    IN IF polled.val.kind = "Executing"
       THEN LET signalled == Signal(polled.st, sig, outcome, doneOk)
                killed == IF signalled.ok THEN signalled
                          ELSE Kill(signalled.st, doneOk)
            IN IF killed.ok
               THEN [st |-> killed.st, pc |-> "wait", ok |-> TRUE, val |-> NoStatus]
               ELSE [st |-> killed.st, pc |-> "return", ok |-> FALSE, val |-> NoStatus]
       ELSE [st |-> polled.st, pc |-> "return", ok |-> TRUE, val |-> polled.val]

\* The executor's fields after an operation.
ExecAssign(st) ==
    /\ ex_child' = st.child
    /\ ex_sender' = st.sender
    /\ proc' = st.proc
    /\ stop_req' = st.stop
    /\ os_result' = st.os
    /\ sig_result' = st.res
    /\ n_signals' = st.signals
    /\ n_kills' = st.kills
    /\ n_stops' = st.stops
    /\ ex_hist' = [signals |-> ex_hist.signals + st.signals,
                   stops |-> ex_hist.stops + st.stops]

\* The caller owns the executor (&mut self): it calls one operation at a time.
CanCall == ex_call = "idle" /\ n_ops < MaxOps

\* Mutant of Execute: the stop handle is stored and the forwarding task is
\* started before the spawn, and stay when the spawn fails.
Execute_RecordsBeforeSpawn(spawned) ==
    /\ CanCall
    /\ n_ops' = n_ops + 1
    /\ ex_sender' = TRUE
    /\ fw_pc' = "running"
    /\ stop_req' = FALSE
    /\ pipe' = NoPipes
    /\ out_chan' = <<>>
    /\ out_open' = TRUE
    /\ ex_hist' = NoExHist
    /\ fw_hist' = [fw_hist EXCEPT !.late = 0]
    /\ IF spawned
       THEN /\ ex_child' = TRUE
            /\ ex_pid' = n_ops + 1
            /\ proc' = [state |-> "running", status |-> NoExit, delivered |-> NoValue]
            /\ ex_ret' = [op |-> "execute", ok |-> TRUE, status |-> NoStatus]
       ELSE /\ ex_ret' = [op |-> "execute", ok |-> FALSE, status |-> NoStatus]
            /\ UNCHANGED <<ex_child, ex_pid, proc>>
    /\ os_result' = NoValue
    /\ sig_result' = NoValue
    /\ n_written' = n_written
    /\ n_signals' = 0
    /\ n_kills' = 0
    /\ n_stops' = 0
    /\ UNCHANGED <<ex_call, observed>>
    /\ UNCHANGED <<appVars, busVars>>
    /\ UNCHANGED paneVars

\* TaskExecutor::execute.  A failed spawn returns the error before any field
\* is set.  A successful one stores the child, its pid and a fresh stop
\* handle, and starts the forwarding task; a stop handle stored before is
\* dropped, which ends the forwarding task that held its receiver.
Execute(spawned) ==
    /\ CanCall
    /\ n_ops' = n_ops + 1
    /\ IF spawned
       THEN /\ ex_child' = TRUE
            /\ ex_pid' = n_ops + 1
            /\ ex_sender' = TRUE
            /\ proc' = [state |-> "running", status |-> NoExit, delivered |-> NoValue]
            /\ fw_pc' = "running"
            /\ stop_req' = FALSE
            /\ pipe' = NoPipes
            /\ out_chan' = <<>>
            /\ out_open' = TRUE
            /\ ex_hist' = NoExHist
            /\ fw_hist' = [fw_hist EXCEPT !.late = 0]
            /\ ex_ret' = [op |-> "execute", ok |-> TRUE, status |-> NoStatus]
       ELSE /\ ex_ret' = [op |-> "execute", ok |-> FALSE, status |-> NoStatus]
            /\ UNCHANGED <<ex_child, ex_pid, ex_sender, proc, fw_pc, stop_req, pipe,
                           out_chan, out_open, ex_hist, fw_hist>>
    /\ os_result' = NoValue
    /\ sig_result' = NoValue
    /\ n_written' = n_written
    /\ n_signals' = 0
    /\ n_kills' = 0
    /\ n_stops' = 0
    /\ UNCHANGED <<ex_call, observed>>
    /\ UNCHANGED <<appVars, busVars>>
    /\ UNCHANGED paneVars

\* A call of TaskExecutor::try_wait.
CallTryWait ==
    /\ CanCall
    /\ n_ops' = n_ops + 1
    /\ LET r == TryWait(ExecState)
       IN /\ ExecAssign(r.st)
          /\ ex_ret' = [op |-> "try_wait", ok |-> TRUE, status |-> r.val]
          /\ observed' = r.val
    /\ UNCHANGED <<ex_pid, fw_pc, ex_call>>
    /\ UNCHANGED outVars
    /\ UNCHANGED <<appVars, busVars>>
    /\ UNCHANGED paneVars
    /\ UNCHANGED fw_hist

\* A call of TaskExecutor::kill.
CallKill(doneOk) ==
    /\ CanCall
    /\ n_ops' = n_ops + 1
    /\ LET r == Kill(ExecState, doneOk)
       IN /\ ExecAssign(r.st)
          /\ ex_ret' = [op |-> "kill", ok |-> r.ok, status |-> NoStatus]
    /\ UNCHANGED <<ex_pid, fw_pc, ex_call>>
    /\ UNCHANGED outVars
    /\ UNCHANGED observed
    /\ UNCHANGED <<appVars, busVars>>
    /\ UNCHANGED paneVars
    /\ UNCHANGED fw_hist

\* A call of TaskExecutor::signal.
CallSignal(sig, outcome, doneOk) ==
    /\ CanCall
    /\ n_ops' = n_ops + 1
    /\ LET r == Signal(ExecState, sig, outcome, doneOk)
       IN /\ ExecAssign(r.st)
          /\ ex_ret' = [op |-> "signal", ok |-> r.ok, status |-> NoStatus]
    /\ UNCHANGED <<ex_pid, fw_pc, ex_call>>
    /\ UNCHANGED outVars
    /\ UNCHANGED observed
    /\ UNCHANGED <<appVars, busVars>>
    /\ UNCHANGED paneVars
    /\ UNCHANGED fw_hist

\* A call of Executable::signal_or_wait, up to its return or to its wait.
CallSignalOrWait(sig, outcome, doneOk) ==
    /\ CanCall
    /\ n_ops' = n_ops + 1
    /\ LET r == SignalOrWait(ExecState, sig, outcome, doneOk)
       IN /\ ExecAssign(r.st)
          /\ IF r.pc = "wait"
             THEN /\ ex_call' = "signal_or_wait"
                  /\ ex_ret' = ex_ret
                  /\ observed' = observed
             ELSE /\ ex_call' = ex_call
                  /\ ex_ret' = [op |-> "signal_or_wait", ok |-> r.ok, status |-> r.val]
                  /\ observed' = IF r.ok THEN r.val ELSE observed
    /\ UNCHANGED <<ex_pid, fw_pc>>
    /\ UNCHANGED outVars
    /\ UNCHANGED <<appVars, busVars>>
    /\ UNCHANGED paneVars
    /\ UNCHANGED fw_hist

\* A call of TaskExecutor::wait: without a child it returns Ready at once,
\* with one it suspends in child.wait().
CallWait ==
    /\ CanCall
    /\ n_ops' = n_ops + 1
    /\ IF ex_child
       THEN /\ ex_call' = "wait"
            /\ ex_ret' = ex_ret
            /\ observed' = observed
       ELSE /\ ex_call' = ex_call
            /\ ex_ret' = [op |-> "wait", ok |-> TRUE, status |-> Ready]
            /\ observed' = Ready
    /\ os_result' = NoValue
    /\ sig_result' = NoValue
    /\ n_signals' = 0
    /\ n_kills' = 0
    /\ n_stops' = 0
    /\ UNCHANGED <<ex_child, ex_pid, ex_sender, proc, fw_pc, stop_req>>
    /\ UNCHANGED outVars
    /\ UNCHANGED <<appVars, busVars>>
    /\ UNCHANGED paneVars
    /\ UNCHANGED <<ex_hist, fw_hist>>

\* TaskExecutor::wait with a child, the return of child.wait().await: the
\* child has ended, it is reaped and its status comes back as Exited.  The
\* caller is in wait itself or in the wait of signal_or_wait.
WaitReturn ==
    /\ ex_call \in {"wait", "signal_or_wait"}
    /\ proc.state # "running"
    /\ proc' = [proc EXCEPT !.state = "reaped"]
    /\ ex_ret' = [op |-> ex_call, ok |-> TRUE, status |-> Exited(ex_pid, proc.status)]
    /\ ex_call' = "idle"
    /\ observed' = Exited(ex_pid, proc.status)
    /\ UNCHANGED <<ex_child, ex_pid, ex_sender, fw_pc, stop_req, os_result, n_ops,
                   n_signals, n_kills, n_stops, sig_result>>
    /\ UNCHANGED outVars
    /\ UNCHANGED <<appVars, busVars>>
    /\ UNCHANGED paneVars
    /\ UNCHANGED <<ex_hist, fw_hist>>

\* The operating system: the running child ends, by itself with an exit code
\* or from the signal that was delivered to it.
ExecChildExit ==
    /\ proc.state = "running"
    /\ \E st \in {ExitStatus(c) : c \in ExitCodes}
              \cup {SignalStatus(g) : g \in {proc.delivered} \ {NoValue}} :
        proc' = [proc EXCEPT !.state = "zombie", !.status = st]
    /\ UNCHANGED <<ex_child, ex_pid, ex_sender, fw_pc, stop_req, ex_call, ex_ret,
                   os_result, n_ops, n_signals, n_kills, n_stops, sig_result>>
    /\ UNCHANGED outVars
    /\ UNCHANGED observed
    /\ UNCHANGED <<appVars, busVars>>
    /\ UNCHANGED paneVars
    /\ UNCHANGED <<ex_hist, fw_hist>>

\* The forwarding task, select! branch `_ = &mut shutdown_receiver`: break.
FwStop ==
    /\ fw_pc = "running"
    /\ stop_req
    /\ fw_pc' = "stopped"
    /\ UNCHANGED <<ex_child, ex_pid, ex_sender, proc, stop_req, ex_call, ex_ret,
                   os_result, n_ops, n_signals, n_kills, n_stops, sig_result>>
    /\ UNCHANGED outVars
    /\ UNCHANGED observed
    /\ UNCHANGED <<appVars, busVars>>
    /\ UNCHANGED paneVars
    /\ UNCHANGED <<ex_hist, fw_hist>>

\* The Update message need_update publishes.
UpdateMsg == [kind |-> "Update", arg |-> NoValue]

\* The forwarding task, branch `Ok(line) = <stream>.next_line()` with
\* Some(line): the line goes onto the output channel, a failed send (the
\* receiver was dropped) breaks the loop; otherwise the loop goes on to
\* message_sender.need_update().
FwLine(st) ==
    /\ fw_pc = "running"
    /\ pipe[st] # <<>>
    /\ pipe' = [pipe EXCEPT ![st] = Tail(@)]
    /\ IF out_open
       THEN /\ out_chan' = Append(out_chan, Head(pipe[st]))
            /\ fw_hist' = [fw_hist EXCEPT !.pushed = @ + 1,
                                          !.late = IF stop_req THEN @ + 1 ELSE @]
            /\ fw_pc' = "update"
       ELSE /\ fw_pc' = "stopped"
            /\ UNCHANGED <<out_chan, fw_hist>>
    /\ UNCHANGED <<ex_child, ex_pid, ex_sender, proc, stop_req, ex_call, ex_ret,
                   os_result, n_ops, n_signals, n_kills, n_stops, sig_result,
                   n_written, out_open, ex_hist>>
    /\ UNCHANGED observed
    /\ UNCHANGED <<appVars, busVars>>
    /\ UNCHANGED paneVars

\* Mutant of FwUpdate: need_update is called twice for a line.
FwUpdate_Twice ==
    /\ fw_pc = "update"
    /\ bus_log' = BusSend(BusSend(bus_log, bus_open, UpdateMsg, "forwarder"),
                          bus_open, UpdateMsg, "forwarder")
    /\ fw_hist' = fw_hist
    /\ fw_pc' = AfterSend(NeedUpdate(bus_open), "running")
    /\ UNCHANGED <<ex_child, ex_pid, ex_sender, proc, stop_req, ex_call, ex_ret,
                   os_result, n_ops, n_signals, n_kills, n_stops, sig_result, ex_hist>>
    /\ UNCHANGED outVars
    /\ UNCHANGED observed
    /\ UNCHANGED <<unix, bus_read, bus_open, h_event, h_count, hl_pc, bus_signals,
                   prod_pc, prod_calls>>
    /\ UNCHANGED appVars
    /\ UNCHANGED paneVars

\* The forwarding task after a line went onto the output channel:
\* message_sender.need_update() publishes one Update message, or panics when
\* the consumer of the bus is gone; then the loop selects again.
FwUpdate ==
    /\ fw_pc = "update"
    /\ bus_log' = BusSend(bus_log, bus_open, UpdateMsg, "forwarder")
    /\ fw_hist' = fw_hist
    /\ fw_pc' = AfterSend(NeedUpdate(bus_open), "running")
    /\ UNCHANGED <<ex_child, ex_pid, ex_sender, proc, stop_req, ex_call, ex_ret,
                   os_result, n_ops, n_signals, n_kills, n_stops, sig_result, ex_hist>>
    /\ UNCHANGED outVars
    /\ UNCHANGED observed
    /\ UNCHANGED <<unix, bus_read, bus_open, h_event, h_count, hl_pc, bus_signals,
                   prod_pc, prod_calls>>
    /\ UNCHANGED appVars
    /\ UNCHANGED paneVars

\* The forwarding task, the same branch with None: the stream is at
\* end-of-file (the child has ended and everything it wrote to this stream
\* has been read): break.
FwEof(st) ==
    /\ fw_pc = "running"
    /\ proc.state # "running"
    /\ pipe[st] = <<>>
    /\ fw_pc' = "stopped"
    /\ UNCHANGED <<ex_child, ex_pid, ex_sender, proc, stop_req, ex_call, ex_ret,
                   os_result, n_ops, n_signals, n_kills, n_stops, sig_result>>
    /\ UNCHANGED outVars
    /\ UNCHANGED observed
    /\ UNCHANGED <<appVars, busVars>>
    /\ UNCHANGED paneVars
    /\ UNCHANGED <<ex_hist, fw_hist>>

\* The running child writes a line to one of its streams; a line is the
\* pair of its stream and its rank among the lines the child wrote.
ChildWrite(st) ==
    /\ proc.state = "running"
    /\ n_written < MaxLines
    /\ n_written' = n_written + 1
    /\ pipe' = [pipe EXCEPT ![st] = Append(@, <<st, n_written + 1>>)]
    /\ UNCHANGED <<ex_child, ex_pid, ex_sender, proc, fw_pc, stop_req, ex_call,
                   ex_ret, os_result, n_ops, n_signals, n_kills, n_stops, sig_result,
                   out_chan, out_open>>
    /\ UNCHANGED observed
    /\ UNCHANGED <<appVars, busVars>>
    /\ UNCHANGED paneVars
    /\ UNCHANGED <<ex_hist, fw_hist>>

\* The caller drops the TaskOutputReceiver that execute returned.
DropOutput ==
    /\ out_open
    /\ out_open' = FALSE
    /\ UNCHANGED <<ex_child, ex_pid, ex_sender, proc, fw_pc, stop_req, ex_call,
                   ex_ret, os_result, n_ops, n_signals, n_kills, n_stops, sig_result,
                   pipe, n_written, out_chan>>
    /\ UNCHANGED observed
    /\ UNCHANGED <<appVars, busVars>>
    /\ UNCHANGED paneVars
    /\ UNCHANGED <<ex_hist, fw_hist>>

NextExec ==
    \/ \E spawned \in BOOLEAN : Execute(spawned)
    \/ CallTryWait
    \/ \E doneOk \in BOOLEAN : CallKill(doneOk)
    \/ \E sig \in ChildSignals, o \in OsOutcomes, doneOk \in BOOLEAN :
          CallSignal(sig, o, doneOk)
    \/ \E sig \in ChildSignals, o \in OsOutcomes, doneOk \in BOOLEAN :
          CallSignalOrWait(sig, o, doneOk)
    \/ CallWait
    \/ WaitReturn
    \/ ExecChildExit
    \/ FwStop
    \/ \E st \in Streams : FwEof(st)

\* The executor at start, the supervisor, the bus and handler left alone.
InitSpecExec == InitExec /\ IdleApp /\ IdleBus /\ InitPanes

SpecExec == InitSpecExec /\ [][NextExec]_vars

\* The output path of one executor: the child writes lines and ends, the
\* forwarding task moves them to the output channel, the caller may drop its
\* receiver, and kill requests the forwarding task to stop.
NextForward ==
    \/ \E spawned \in BOOLEAN : Execute(spawned)
    \/ \E doneOk \in BOOLEAN : CallKill(doneOk)
    \/ \E st \in Streams : ChildWrite(st)
    \/ ExecChildExit
    \/ FwStop
    \/ \E st \in Streams : FwLine(st)
    \/ FwUpdate
    \/ \E st \in Streams : FwEof(st)
    \/ DropOutput
    \/ BusRecv
    \/ BusClose

InitSpecForward == InitExec /\ IdleApp /\ IdleBus /\ InitPanes

SpecForward == InitSpecForward /\ [][NextForward]_vars

\* ---------------- the forwarding task under a child that never stops writing

\* The model follows one forwarding task: a new one is started once the
\* one before it has ended.
ExecuteNext(spawned) ==
    /\ fw_pc \notin {"running", "update"}
    /\ Execute(spawned)

\* The running child writes one more line to a stream as soon as the line
\* before it has been read; the lines are numbered round a cycle.
ChildEmit(st) ==
    /\ proc.state = "running"
    /\ pipe[st] = <<>>
    /\ pipe' = [pipe EXCEPT ![st] = Append(@, <<st, n_written + 1>>)]
    /\ n_written' = (n_written + 1) % (MaxLines + 1)
    /\ UNCHANGED <<ex_child, ex_pid, ex_sender, proc, fw_pc, stop_req, ex_call,
                   ex_ret, os_result, n_ops, n_signals, n_kills, n_stops, sig_result,
                   out_chan, out_open>>
    /\ UNCHANGED <<ex_hist, fw_hist>>
    /\ UNCHANGED observed
    /\ UNCHANGED <<appVars, busVars>>
    /\ UNCHANGED paneVars

\* One turn of the loop of the forwarding task on a line: the line goes onto
\* the output channel and need_update publishes its Update; both receivers
\* are alive and take them at once, so that neither queue grows.
FwForward(st) ==
    /\ fw_pc = "running"
    /\ pipe[st] # <<>>
    /\ out_open
    /\ bus_open
    /\ pipe' = [pipe EXCEPT ![st] = Tail(@)]
    /\ UNCHANGED <<ex_child, ex_pid, ex_sender, proc, fw_pc, stop_req, ex_call,
                   ex_ret, os_result, n_ops, n_signals, n_kills, n_stops, sig_result,
                   n_written, out_chan, out_open>>
    /\ UNCHANGED <<ex_hist, fw_hist>>
    /\ UNCHANGED observed
    /\ UNCHANGED <<appVars, busVars>>
    /\ UNCHANGED paneVars

NextStop ==
    \/ \E spawned \in BOOLEAN : ExecuteNext(spawned)
    \/ \E doneOk \in BOOLEAN : CallKill(doneOk)
    \/ \E sig \in ChildSignals, o \in OsOutcomes, doneOk \in BOOLEAN :
          CallSignal(sig, o, doneOk)
    \/ \E st \in Streams : ChildEmit(st)
    \/ ExecChildExit
    \/ FwStop
    \/ \E st \in Streams : FwForward(st)
    \/ \E st \in Streams : FwEof(st)

\* The select! of the forwarding task takes one of its ready branches at
\* random: a stop request that stays ready is taken in the end.  The child,
\* the caller and the streams are under no obligation.
LiveSpecStop == InitSpecForward /\ [][NextStop]_vars /\ WF_vars(FwStop)

\* ------------------------------ the output of a child of console.rs

\* ConsoleState::spawn: the child runs; the output channel is in place; the
\* future that forwards its output is returned, nothing of it has run.
ConSpawn ==
    /\ fw_pc = "none"
    /\ proc' = [state |-> "running", status |-> NoExit, delivered |-> NoValue]
    /\ out_open' = TRUE
    /\ fw_pc' = "created"
    /\ UNCHANGED <<ex_child, ex_pid, ex_sender, stop_req, ex_call, ex_ret, os_result,
                   n_ops, n_signals, n_kills, n_stops, sig_result, pipe, n_written,
                   out_chan>>
    /\ UNCHANGED <<ex_hist, fw_hist>>
    /\ UNCHANGED observed
    /\ UNCHANGED <<appVars, busVars>>
    /\ UNCHANGED paneVars

\* The future spawn returned is polled (by the join_all of App::run):
\* `stdout_task.await` starts forward_output on stdout, which spawns the task
\* that reads stdout, and waits for that task.
ConPoll ==
    /\ fw_pc = "created"
    /\ fw_pc' = "stdout"
    /\ UNCHANGED <<ex_child, ex_pid, ex_sender, proc, stop_req, ex_call, ex_ret,
                   os_result, n_ops, n_signals, n_kills, n_stops, sig_result>>
    /\ UNCHANGED outVars
    /\ UNCHANGED <<ex_hist, fw_hist>>
    /\ UNCHANGED observed
    /\ UNCHANGED <<appVars, busVars>>
    /\ UNCHANGED paneVars

\* forward_output, the loop `while let Ok(Some(line)) = next_line().await`
\* of the task reading stream st: the line goes onto the output channel.
ConLine(st) ==
    /\ fw_pc = st
    /\ pipe[st] # <<>>
    /\ pipe' = [pipe EXCEPT ![st] = Tail(@)]
    /\ out_chan' = Append(out_chan, Head(pipe[st]))
    /\ UNCHANGED <<ex_child, ex_pid, ex_sender, proc, fw_pc, stop_req, ex_call,
                   ex_ret, os_result, n_ops, n_signals, n_kills, n_stops, sig_result,
                   n_written, out_open>>
    /\ UNCHANGED <<ex_hist, fw_hist>>
    /\ UNCHANGED observed
    /\ UNCHANGED <<appVars, busVars>>
    /\ UNCHANGED paneVars

\* The task reading stream st meets end-of-file and ends; the future goes
\* on: after stdout to `stderr_task.await`, which starts the task that reads
\* stderr, after stderr to child.wait().
ConEof(st) ==
    /\ fw_pc = st
    /\ proc.state # "running"
    /\ pipe[st] = <<>>
    /\ fw_pc' = IF st = "stdout" THEN "stderr" ELSE "wait"
    /\ UNCHANGED <<ex_child, ex_pid, ex_sender, proc, stop_req, ex_call, ex_ret,
                   os_result, n_ops, n_signals, n_kills, n_stops, sig_result>>
    /\ UNCHANGED outVars
    /\ UNCHANGED <<ex_hist, fw_hist>>
    /\ UNCHANGED observed
    /\ UNCHANGED <<appVars, busVars>>
    /\ UNCHANGED paneVars

\* child.wait().await returns: the future yields the ParallelyResult.
ConWait ==
    /\ fw_pc = "wait"
    /\ proc.state # "running"
    /\ proc' = [proc EXCEPT !.state = "reaped"]
    /\ fw_pc' = "done"
    /\ UNCHANGED <<ex_child, ex_pid, ex_sender, stop_req, ex_call, ex_ret, os_result,
                   n_ops, n_signals, n_kills, n_stops, sig_result>>
    /\ UNCHANGED outVars
    /\ UNCHANGED <<ex_hist, fw_hist>>
    /\ UNCHANGED observed
    /\ UNCHANGED <<appVars, busVars>>
    /\ UNCHANGED paneVars

NextConsole ==
    \/ ConSpawn
    \/ ConPoll
    \/ \E st \in Streams : ChildWrite(st)
    \/ ExecChildExit
    \/ \E st \in Streams : ConLine(st)
    \/ \E st \in Streams : ConEof(st)
    \/ ConWait

InitSpecConsole == InitExec /\ IdleApp /\ IdleBus /\ InitPanes

SpecConsole == InitSpecConsole /\ [][NextConsole]_vars

\* ------------------------- the panes: console.rs, App::handle_events

\* The terminal: NumCommands panes side by side (Layout::horizontal), each
\* PaneWidth columns wide; in each, row 0 holds the title block and the rows
\* below it the output block, whose rectangle is the pane's viewport.
TermColumns == 0..(NumCommands * PaneWidth - 1)
TermRows == 0..ViewHeight

\* stdout_rect of pane i as Console::render lays it out.
StdoutRect(i) == [x |-> (i - 1) * PaneWidth, y |-> 1, width |-> PaneWidth,
                  height |-> ViewHeight]

\* Rect::contains.
Contains(rect, column, row) ==
    /\ column >= rect.x
    /\ column < rect.x + rect.width
    /\ row >= rect.y
    /\ row < rect.y + rect.height

\* The mouse events of crossterm, by kind and position.
MouseKinds == {"ScrollUp", "ScrollDown", "Moved"}
MouseEvents == [kind : MouseKinds, column : TermColumns, row : TermRows]

\* The events App::handle_events passes on to the panes or drops.
PaneEvents == MouseEvents \cup {[kind |-> k, column |-> 0, row |-> 0] : k \in {"Resize", "Focus"}}

\* stdout_scroll_max of Console::render: lines beyond the viewport.
ScrollMax(i) == IF pane_lines[i] > ViewHeight THEN pane_lines[i] - ViewHeight ELSE 0

Min(a, b) == IF a < b THEN a ELSE b

\* Mutant of HandleMouseEvent: the position of the event is not looked at.
HandleMouseEvent_AnyPosition(i) ==
    LET ev == pane_mouse[i]
    IN CASE ev.kind = "ScrollUp" ->
              IF pane_scroll[i] > 0 THEN pane_scroll[i] - 1 ELSE 0
         [] ev.kind = "ScrollDown" -> pane_scroll[i] + 1
         [] OTHER -> pane_scroll[i]

\* ConsoleState::handle_mouse_event(output_vertical_scroll, stdout_rect):
\* the offset after the stored event, if any, has been taken.
HandleMouseEvent(i) ==
    LET ev == pane_mouse[i]
    IN IF ev.kind # NoValue /\ Contains(StdoutRect(i), ev.column, ev.row)
       THEN CASE ev.kind = "ScrollUp" ->
                   IF pane_scroll[i] > 0 THEN pane_scroll[i] - 1 ELSE 0
              [] ev.kind = "ScrollDown" -> pane_scroll[i] + 1
              [] OTHER -> pane_scroll[i]
       ELSE pane_scroll[i]

\* terminal.draw at the top of the loop of App::run: Console::render of
\* every pane, in order; each takes its stored event and clamps its offset.
PaneDraw ==
    /\ pane_pc = "draw"
    /\ pane_scroll' = [i \in Commands |-> Min(HandleMouseEvent(i), ScrollMax(i))]
    /\ pane_mouse' = [i \in Commands |-> NoMouse]
    /\ pane_pc' = "select"
    /\ UNCHANGED <<pane_lines, n_pane_events>>
    /\ UNCHANGED <<appVars, busVars, execVars>>

\* App::handle_events, the branches that reach the panes: a scroll event is
\* stored in every pane, Resize and Focus events clear what is stored, any
\* other mouse event is dropped.
PaneEvent(e) ==
    /\ pane_pc = "select"
    /\ n_pane_events < MaxPaneEvents
    /\ n_pane_events' = n_pane_events + 1
    /\ pane_mouse' =
          CASE e.kind \in {"ScrollUp", "ScrollDown"} -> [i \in Commands |-> e]
            [] e.kind \in {"Resize", "Focus"} -> [i \in Commands |-> NoMouse]
            [] OTHER -> pane_mouse
    /\ pane_pc' = "draw"
    /\ UNCHANGED <<pane_scroll, pane_lines>>
    /\ UNCHANGED <<appVars, busVars, execVars>>

\* The select! of App::run ends on its sleep: the loop draws again.
PaneTick ==
    /\ pane_pc = "select"
    /\ pane_pc' = "draw"
    /\ UNCHANGED <<pane_mouse, pane_scroll, pane_lines, n_pane_events>>
    /\ UNCHANGED <<appVars, busVars, execVars>>

\* A line of the child's output reaches pane i (ConsoleState::receive
\* appends it to output_text at the next render).
PaneOutput(i) ==
    /\ pane_lines[i] < MaxPaneLines
    /\ pane_lines' = [pane_lines EXCEPT ![i] = @ + 1]
    /\ UNCHANGED <<pane_mouse, pane_scroll, pane_pc, n_pane_events>>
    /\ UNCHANGED <<appVars, busVars, execVars>>

NextPane ==
    \/ PaneDraw
    \/ \E e \in PaneEvents : PaneEvent(e)
    \/ PaneTick
    \/ \E i \in Commands : PaneOutput(i)

InitSpecPane == InitPanes /\ IdleApp /\ IdleBus /\ InitExec

SpecPane == InitSpecPane /\ [][NextPane]_vars

\* The code after the loop of App::run and after app.run in main is straight
\* line code: once reached it runs.  Children, the operating system and the
\* terminal are under no obligation to do anything.
LiveSpecApp == SpecApp /\ WF_vars(AppExit) /\ WF_vars(MainFinish)

\* ------------------------------------------------ claims about app.rs

\* App::run has left its loop.
AppLeftLoop == app_pc \in {"broke", "returned"}

\* App::run has left its loop through the shutdown branch of its select!.
ShutdownConsumed ==
    /\ AppLeftLoop
    /\ app_result # NoResult
    /\ app_result.reason \notin {"End", "Error", "spawn"}

TerminalKinds == {"Exited", "Killed"}

\* C1 (as claimed): when the program exits after a shutdown trigger or after
\* its children completed, it has reported exactly NumCommands status entries,
\* each of them Exited or Killed.
C1_ExitReportsAllTerminal ==
    (main_pc = "exited" /\ app_result.reason \in TriggerReasons \cup {"End"})
        => /\ Len(reported) = NumCommands
           /\ \A k \in 1..Len(reported) : reported[k].kind \in TerminalKinds

\* C2 (as claimed): the Supervisor never returns from a consumed Shutdown
\* message while a child it spawned is still running.
C2_NoReturnWhileExecuting ==
    (app_pc = "returned" /\ ShutdownConsumed)
        => \A i \in Commands : child[i].state # "running"

\* C4: after a Shutdown message is consumed the Supervisor eventually returns,
\* whatever the children do.
C4_ShutdownTerminates == ShutdownConsumed ~> (app_pc = "returned")

\* C4 witness: the Supervisor has returned from a consumed Shutdown message
\* although a child never exited.
C4_Witness ==
    /\ app_pc = "returned"
    /\ ShutdownConsumed
    /\ \E i \in Commands : child[i].state = "running"

\* C5: once the Supervisor has consumed a Shutdown message, a further message
\* on the channel is inert: the result stays that of the first message, nothing
\* more is received from the channel and no further pass over the tasks runs.
C5_SecondShutdownInert ==
    [][ShutdownConsumed =>
          /\ app_result' = app_result
          /\ AppLeftLoop'
          /\ tasks_terminated' = tasks_terminated
          /\ task_pc' = task_pc
          /\ \/ Len(shutdown_q') >= Len(shutdown_q)
             \/ (app_pc' = "returned" /\ shutdown_q' = <<>>)
          /\ (main_pc' = "exited" => reported' = app_result.tasks)]_vars

\* C5 witness: the Supervisor has consumed one Shutdown message and left its
\* loop, and a second Shutdown message sits behind it on the channel.
C5_Witness ==
    /\ app_pc = "broke"
    /\ ShutdownConsumed
    /\ shutdown_q # <<>>
    /\ Head(shutdown_q).ok

\* C6 (as claimed): with exit-on-complete enabled, once the completion of
\* every child has been delivered to the Supervisor, it leaves its loop.
C6_ExitOnCompleteExits ==
    (exit_on_complete /\ tasks_terminated) => AppLeftLoop

\* C7 (as claimed): with exit-on-complete disabled, the completion of the
\* children never ends the Supervisor.
C7_NoExitOnCompleteStays ==
    (~exit_on_complete /\ AppLeftLoop) => app_result.reason # "End"

\* The reason the keyboard trigger is to give each trigger chord.
ChordReason(e) ==
    CASE e.code = "q" -> "Quit"
      [] e.code = "c" -> "CtrlC"
      [] e.code = "backslash" -> "Sigquit"

\* The three trigger chords: q alone, control-c, control-backslash.
TriggerChords ==
    {e \in KeyEvents : /\ e.kind = "Press"
                       /\ \/ e.code = "q" /\ e.mods = "NONE"
                          \/ e.code = "c" /\ e.mods = "CONTROL"
                          \/ e.code = "backslash" /\ e.mods = "CONTROL"}

\* C9 (as claimed): every key-press of a trigger chord given to
\* App::handle_events publishes one Shutdown message with the chord's reason.
C9_AppChordsPublish ==
    [][\A e \in TriggerChords :
          AppEvent(e) => shutdown_q' = Append(shutdown_q, OkReason(ChordReason(e)))]_vars

\* C11 (as claimed): App::run takes the items made available to it (input
\* events, Shutdown messages) in the order they were published, whatever
\* their producer: the k-th item it takes is the k-th published.
C11_ConsumedInPublishOrder ==
    \A k \in 1..Len(consumed) : consumed[k] = k

\* C18 (as claimed): a command that fails to spawn does not end the run: the
\* supervisor reaches its loop and every other command is spawned.
C18_SpawnFailureContained ==
    (app_pc # "init" /\ \E i \in Commands : child[i].state = "none")
        => /\ app_result # ErrResult("spawn")
           /\ Cardinality({i \in Commands : child[i].state = "none"}) = 1

\* ------------------------------- claims about the handler and the bus

\* Key-press events of the q key, whatever the modifiers.
QPresses == {e \in KeyEvents : e.code = "q" /\ e.kind = "Press"}

\* C8: handling a press of the q key publishes exactly one Shutdown(Quit)
\* message and leaves the event marked non-propagating.
C8_QuitKeyPublishesOnce ==
    [][\A e \in QPresses :
          HandleEvent(e) =>
              /\ bus_log' = Append(bus_log, [msg |-> ShutdownMsg("Quit"), from |-> "handler"])
              /\ h_event' = [inner |-> e, propagate |-> FALSE]]_vars

\* C8 witness: a q press has been handled, the handler's one message is
\* Shutdown(Quit) and the event no longer propagates.
C8_Witness ==
    /\ h_count = 1
    /\ h_event.inner \in QPresses
    /\ ~h_event.propagate
    /\ SentBy(bus_log, "handler") = <<[msg |-> ShutdownMsg("Quit"), from |-> "handler"]>>

\* The Shutdown messages the OS-signal listener has published.
ListenerShutdowns ==
    SelectSeq(bus_log, LAMBDA en : en.from = "listener" /\ en.msg.kind = "Shutdown")

\* C10 (as claimed): on a unix the listener publishes at most one Shutdown
\* message, exactly one once it has ended, and its reason is that of the first
\* signal delivered.
C10_FirstSignalOnce ==
    unix =>
        /\ Len(ListenerShutdowns) <= 1
        /\ hl_pc = "done" =>
              /\ Len(ListenerShutdowns) = 1
              /\ ListenerShutdowns[1].msg.arg = SignalReason(bus_signals[1])

\* C10 (amended): on a unix the listener publishes at most one Shutdown
\* message, whatever signals follow; it has published exactly one when it has
\* ended, none before, and the reason is that of one of the signals delivered,
\* not always of the first.
C10_OneSignalOnce ==
    unix =>
        /\ Len(ListenerShutdowns) <= 1
        /\ hl_pc = "done" <=> Len(ListenerShutdowns) = 1
        /\ hl_pc = "done" =>
              \E s \in Range(bus_signals) :
                  ListenerShutdowns[1].msg.arg = SignalReason(s)

\* C10 witness: two signals were delivered and the listener has ended after
\* publishing one Shutdown message.
C10_Witness ==
    /\ unix
    /\ hl_pc = "done"
    /\ Len(bus_signals) = 2
    /\ Len(ListenerShutdowns) = 1

\* C12: once the consumer end of the bus is gone, publishing a message of
\* any kind (Shutdown, Error, InputEventBatch, NeedRedraw) puts nothing on the
\* queue and ends the producer in a panic.
C12_FailedPublishPanics ==
    [][\A m \in ProducedMsgs :
          (BusProduce(m) /\ ~bus_open)
              => /\ bus_log' = bus_log
                 /\ prod_pc' = "panicked"]_vars

\* C12 witness: a producer panicked on a bus whose consumer is gone, after a
\* message it had published earlier was delivered.
C12_Witness ==
    /\ ~bus_open
    /\ prod_pc = "panicked"
    /\ Len(SentBy(bus_log, "producer")) = 1

\* C26 (as claimed): where only the interrupt signal is observable (not a
\* unix), a listener that has ended because the interrupt fired has published
\* one Shutdown message, as it does on a unix.
C26_InterruptPublishes ==
    (~unix /\ hl_pc = "done") => Len(ListenerShutdowns) = 1

\* C27 (as claimed): handling an event that is not a press of one of the
\* three trigger chords (q alone, control-c, control-backslash) publishes no
\* message and leaves the event propagating.
C27_OtherEventsIgnored ==
    [][\A e \in Events \ TriggerChords :
          HandleEvent(e) =>
              /\ bus_log' = bus_log
              /\ h_event' = NewParallelyEvent(e)]_vars

\* ------------------------------------------ claims about the executor

\* C3 (as claimed): when the operating system rejects the delivery of the
\* graceful signal (EPERM, ESRCH), the status signal_or_wait returns is Killed.
C3_FailedDeliveryKilled ==
    (ex_ret.op = "signal_or_wait" /\ os_result \in {"EPERM", "ESRCH"})
        => ex_ret.status.kind = "Killed"

\* Position of a TaskStatus in the life cycle Ready, Executing, terminal.
StatusRank(kind) ==
    CASE kind = "Ready" -> 1
      [] kind = "Executing" -> 2
      [] kind \in TerminalKinds -> 3
      [] OTHER -> 0

\* C13 (as claimed): the TaskStatus the operations of one executor return
\* never moves backwards in Ready, Executing, terminal, and after a terminal
\* status every later status returned is that same status.
C13_StatusOnlyAdvances ==
    [][/\ StatusRank(observed'.kind) >= StatusRank(observed.kind)
       /\ observed.kind \in TerminalKinds => observed' = observed]_vars

\* C14: try_wait returns at once, with Ready when the executor holds no
\* child, Executing with the pid while the child runs, and Exited with the
\* pid and the child's exit status once the child has ended.
C14_TryWaitReports ==
    [][CallTryWait =>
          /\ ex_call' = "idle"
          /\ ex_ret'.op = "try_wait"
          /\ ex_ret'.ok
          /\ ex_ret'.status = IF ~ex_child THEN Ready
                              ELSE IF proc.state = "running" THEN Executing(ex_pid)
                              ELSE Exited(ex_pid, proc.status)]_vars

\* C14 witness: try_wait returned Exited with the exit code of a child that
\* ended by itself.
C14_Witness ==
    /\ ex_ret.op = "try_wait"
    /\ ex_ret.status.kind = "Exited"
    /\ ex_ret.status.status.how = "exit"

\* C16: send_signal on a child without a pid (Child::id is None) returns
\* InvalidPid and makes no libc::kill call, whatever the signal.
C16_InvalidPidNoOsCall ==
    [][\A sig \in ChildSignals, o \in OsOutcomes, doneOk \in BOOLEAN :
          (CallSignal(sig, o, doneOk) /\ ex_child /\ ex_sender /\ proc.state = "reaped")
              => /\ sig_result' = "InvalidPid"
                 /\ n_signals' = 0
                 /\ os_result' = NoValue]_vars

\* C16 witness: signal has run send_signal on a child whose pid is gone.
C16_Witness ==
    /\ ex_ret.op = "signal"
    /\ sig_result = "InvalidPid"
    /\ n_signals = 0

\* C17 (as claimed): a delivery the operating system rejects is reported by
\* send_signal as NoPermission (EPERM) or NoWait (ESRCH).
C17_RejectionReported ==
    /\ os_result = "EPERM" => sig_result = "NoPermission"
    /\ os_result = "ESRCH" => sig_result = "NoWait"

\* C20 (as claimed): signal on an executor that holds a child and its stop
\* handle: when the delivery fails (no pid, or the operating system rejects
\* it) kill is called before signal returns, and in every case the stop
\* request has been sent when signal returns.
C20_SignalEscalatesAndStops ==
    [][\A sig \in ChildSignals, o \in OsOutcomes, doneOk \in BOOLEAN :
          (CallSignal(sig, o, doneOk) /\ ex_child /\ ex_sender)
              => /\ (sig_result' = "InvalidPid" \/ os_result' \in {"EPERM", "ESRCH"})
                        => n_kills' >= 1
                 /\ stop_req'
                 /\ n_stops' >= 1]_vars

\* C25 (as claimed): the status wait returns is terminal, Exited or Killed,
\* whatever the state of the executor it was called in.
C25_WaitReturnsTerminal ==
    (ex_ret.op = "wait" /\ ex_ret.ok) => ex_ret.status.kind \in TerminalKinds

\* C28: an execute whose spawn fails returns the error and leaves the
\* executor as it was: child handle, pid, stop handle and forwarding task;
\* an executor that held no child still answers try_wait with Ready.
C28_FailedSpawnChangesNothing ==
    [][Execute(FALSE) =>
          /\ ~ex_ret'.ok
          /\ ex_ret'.op = "execute"
          /\ UNCHANGED <<ex_child, ex_pid, ex_sender, proc, fw_pc, stop_req>>
          /\ ~ex_child => TryWait(ExecState)'.val = Ready]_vars

\* C28 witness: the first execute of an executor failed to spawn; the
\* executor holds no child, no pid, no stop handle and no forwarding task.
C28_Witness ==
    /\ ex_ret.op = "execute"
    /\ ~ex_ret.ok
    /\ ~ex_child
    /\ ex_pid = 0
    /\ ~ex_sender
    /\ fw_pc = "none"

\* C29: signal_or_wait called on an executor that try_wait does not report
\* as Executing (no child, or a child that has ended) returns that status at
\* once and sends nothing: no signal, no kill, no stop request.
C29_OnlyExecutingSignalled ==
    [][\A sig \in ChildSignals, o \in OsOutcomes, doneOk \in BOOLEAN :
          (CallSignalOrWait(sig, o, doneOk) /\ TryWait(ExecState).val.kind # "Executing")
              => /\ ex_call' = "idle"
                 /\ ex_ret' = [op |-> "signal_or_wait", ok |-> TRUE,
                               status |-> TryWait(ExecState).val]
                 /\ n_signals' = 0
                 /\ n_kills' = 0
                 /\ n_stops' = 0
                 /\ UNCHANGED <<ex_sender, stop_req, ex_hist>>]_vars

\* C29 witness: signal_or_wait returned Exited for a child that had ended,
\* the stop handle still in place.
C29_Witness ==
    /\ ex_ret.op = "signal_or_wait"
    /\ ex_ret.status.kind = "Exited"
    /\ ex_sender
    /\ ~stop_req
    /\ n_signals = 0
    /\ n_kills = 0

\* C30: between two spawns of an executor the stop request is sent at most
\* once and signal makes at most one libc::kill call, whatever the sequence
\* of signal and kill calls; a signal call that finds the stop handle taken
\* returns Ok and sends nothing.
C30_StopAndSignalOnce ==
    [][/\ ex_hist'.stops <= 1
       /\ ex_hist'.signals <= 1
       /\ \A sig \in ChildSignals, o \in OsOutcomes, doneOk \in BOOLEAN :
             (CallSignal(sig, o, doneOk) /\ ~ex_sender)
                 => /\ ex_ret' = [op |-> "signal", ok |-> TRUE, status |-> NoStatus]
                    /\ n_signals' = 0
                    /\ n_kills' = 0
                    /\ n_stops' = 0
                    /\ UNCHANGED <<proc, ex_hist>>]_vars

\* C30 witness: after a signal call that sent the signal and the stop
\* request, a second signal call returned Ok without sending anything.
C30_Witness ==
    /\ ex_ret.op = "signal"
    /\ ex_ret.ok
    /\ ex_hist.signals = 1
    /\ ex_hist.stops = 1
    /\ n_signals = 0
    /\ n_stops = 0
    /\ n_ops >= 3

\* ------------------------------------- claims about the output path

\* C19 (as claimed): the forwarding task does not end, absent a stop request
\* and with the receiver of the output channel alive, while a line the child
\* wrote is still unread on either stream.
C19_NoLineDropped ==
    (fw_pc = "stopped" /\ ~stop_req /\ out_open)
        => \A st \in Streams : pipe[st] = <<>>

\* C21: once kill or signal has been called on an executor that holds a
\* child, the forwarding task ends (and with it drops its sender of the
\* output channel), however many lines the child goes on writing.
C21_ForwarderStops ==
    (ex_child /\ ex_ret.op \in {"kill", "signal"}) ~> (fw_pc # "running")

\* C21 witness: the forwarding task has ended on the stop request of a
\* signal call while the child, still running, has lines pending on both
\* streams.
C21_Witness ==
    /\ ex_ret.op = "signal"
    /\ stop_req
    /\ fw_pc = "stopped"
    /\ proc.state = "running"
    /\ \A st \in Streams : pipe[st] # <<>>

\* C22 (as claimed): the forwarding task pushes at most one line onto the
\* output channel after the stop request was sent to it.
C22_OneLineAfterStop == fw_hist.late <= 1

\* The Update messages the forwarding task has published, and those of them
\* the consumer of the bus has taken.
FwUpdates(log) == SelectSeq(log, LAMBDA en : en.from = "forwarder" /\ en.msg = UpdateMsg)
FwUpdatesRead == FwUpdates(SubSeq(bus_log, 1, bus_read))

\* C23: a line pushed onto the output channel is followed by need_update,
\* which publishes one Update message while the bus has its consumer; the
\* Update messages published, and so those consumed, never outnumber the
\* lines pushed.
C23_UpdateFollowsLine ==
    [][/\ Len(FwUpdates(bus_log')) <= fw_hist'.pushed
       /\ Len(FwUpdatesRead') <= fw_hist'.pushed
       /\ \A st \in Streams : (FwLine(st) /\ out_open) => fw_pc' = "update"
       /\ (fw_pc # "update" /\ fw_pc' = "update") => \E st \in Streams : FwLine(st)
       /\ (FwUpdate /\ bus_open)
             => /\ bus_log' = Append(bus_log, [msg |-> UpdateMsg, from |-> "forwarder"])
                /\ fw_pc' = "running"
       /\ (FwUpdate /\ ~bus_open) => (bus_log' = bus_log /\ fw_pc' = "panicked")]_vars

\* C23 witness: two lines were pushed, each followed by its Update, and the
\* consumer has taken one of the two Updates.
C23_Witness ==
    /\ fw_hist.pushed = 2
    /\ Len(out_chan) = 2
    /\ Len(FwUpdates(bus_log)) = 2
    /\ bus_read = 1
    /\ fw_pc = "running"

\* C24 (as claimed): while the output of a child of console.rs is being
\* forwarded and its stdout is open (the child runs), a line pending on
\* stderr can be forwarded.
C24_StderrNotBehindStdout ==
    (fw_pc \in Streams /\ proc.state = "running" /\ pipe["stderr"] # <<>>)
        => ENABLED ConLine("stderr")

\* ------------------------------------------- claims about the panes

\* Pane a holds a scroll event that lies inside its viewport rectangle.
ScrollInside(a) ==
    /\ pane_mouse[a].kind \in {"ScrollUp", "ScrollDown"}
    /\ Contains(StdoutRect(a), pane_mouse[a].column, pane_mouse[a].row)

====
